---- MODULE Spec2Model ----
(***************************************************************************)
(* Model of the cybersecurity self-assessment tool: the scoring core       *)
(* (src/app/logic.py: load_questions, calculate_scores,                    *)
(* generate_recommendations), the console front end                        *)
(* (src/app/console_app.py) and the web front end (src/app/web_app.py).    *)
(*                                                                         *)
(* Specifications: Spec (calls on well-shaped catalogs), SpecConfig (calls *)
(* on catalogs as a questions.json may hold them), SpecFrontEnd (one       *)
(* session of a front end), SpecSessions (interleaved calls of independent *)
(* sessions on one catalog).                                               *)
(*                                                                         *)
(* Python values are modelled as follows.                                  *)
(*  - A question (a dict read from questions.json) is a TLA+ function      *)
(*    whose DOMAIN is the set of keys the dict has; q["k"] on an absent    *)
(*    key is the KeyError the interpreter raises.                          *)
(*  - The value under "weight" carries its JSON type: Num(n) is the number *)
(*    n, StrWeight is a JSON string (0 + "x" raises TypeError in sum()).   *)
(*  - answers is a function from the ids that have an entry to "yes"/"no"; *)
(*    answers.get(id) is None exactly when id is not in its DOMAIN.        *)
(*  - A float is the exact rational it denotes, kept as a reduced fraction *)
(*    [num, den].  For integer weights the double results of               *)
(*    (r / m) * 100 and 100 - x agree with the exact values on every       *)
(*    comparison made here (0, 50, 80, 100 are exact, 100 - x + x rounds   *)
(*    to 100, and two distinct ratios of small integers never round        *)
(*    across a threshold).                                                 *)
(*  - A dict is a function on its keys (key order is not modelled).        *)
(***************************************************************************)
EXTENDS Integers, Sequences, FiniteSets, TLC

\* ------------------------------------------------------------------ bounds
MaxQ == 2
MaxWeight == 4

\* ------------------------------------------------------------- input sets
Ids == {"Q1", "Q2", "Q21"}
Pillars == {"Identify", "Protect"}
AnswerValues == {"yes", "no"}

Num(n) == [type |-> "int", val |-> n]
StrWeight == [type |-> "str", val |-> 0]

\* Well-shaped question records: every required key, a numeric weight >= 0,
\* good_answer given as "no" or left out (the default "yes" then applies).
\* Ids may repeat between records: the code accepts that.
Questions ==
  LET full == { [id |-> i, pillar |-> p, weight |-> Num(w), good_answer |-> "no"] :
                  i \in Ids, p \in Pillars, w \in 0..MaxWeight }
      nodef == { [id |-> i, pillar |-> p, weight |-> Num(w)] :
                  i \in Ids, p \in Pillars, w \in 0..MaxWeight }
  IN full \cup nodef

SeqsUpTo(S, n) == UNION { [1..k -> S] : k \in 0..n }

Catalogs == SeqsUpTo(Questions, MaxQ)

\* Records as a questions.json may hold them: the well-shaped ones of one
\* pillar and weight, and the same with a key missing, a string weight or a
\* good_answer that is neither "yes" nor "no".
RawQuestions ==
  LET ok      == { [id |-> i, pillar |-> "Protect", weight |-> Num(1)] : i \in {"Q1", "Q2"} }
      badga   == { [id |-> "Q1", pillar |-> "Protect", weight |-> Num(1),
                    good_answer |-> "maybe"] }
      strw    == { [id |-> "Q1", pillar |-> "Protect", weight |-> StrWeight] }
      noid    == { [pillar |-> "Protect", weight |-> Num(1)] }
      nopil   == { [id |-> "Q1", weight |-> Num(1)] }
      noweigh == { [id |-> "Q1", pillar |-> "Protect"] }
  IN ok \cup badga \cup strw \cup noid \cup nopil \cup noweigh

RawCatalogs == SeqsUpTo(RawQuestions, MaxQ)

\* Every answers mapping over the known ids (an id that the chosen catalog
\* does not use is a foreign id).
AnswerMaps == UNION { [D -> AnswerValues] : D \in SUBSET Ids }

\* ----------------------------------------------------------- exact numbers
RECURSIVE GCD(_, _)
GCD(a, b) == IF b = 0 THEN a ELSE GCD(b, a % b)

\* n / d for n >= 0, d > 0, reduced.
Frac(n, d) == LET g == GCD(n, d) IN [num |-> n \div g, den |-> d \div g]
FromInt(n) == [num |-> n, den |-> 1]
\* x * 100 and 100 - x (for 0 <= x <= 100)
Times100(x) == Frac(x.num * 100, x.den)
HundredMinus(x) == Frac(100 * x.den - x.num, x.den)
GreaterEq(x, n) == x.num >= n * x.den

\* ------------------------------------------------------- calculate_scores
\* dict.get(key, default)
DictGet(d, k, default) == IF k \in DOMAIN d THEN d[k] ELSE default
\* d[k] = v
DictSet(d, k, v) == [x \in DOMAIN d \cup {k} |-> IF x = k THEN v ELSE d[x]]

\* Mutant: the question's own good_answer is ignored, "yes" is always the good one.
GoodAnswerAlwaysYes(q) == "yes"

\* q.get("good_answer", "yes")
GoodAnswer(q) == DictGet(q, "good_answer", "yes")

\* Mutant: "no" is taken as the unsafe answer, whatever good_answer says.
AnsweredBadlyWhenNo(q, ans) ==
  /\ q.id \in DOMAIN ans
  /\ ans[q.id] = "no"

\* Mutant: the "is not None" test is dropped, so None differs from good_answer.
AnsweredBadlyOrUnanswered(q, ans) ==
  \/ q.id \notin DOMAIN ans
  \/ ans[q.id] # GoodAnswer(q)

\* Mutant: the answers are scanned instead of looked up under the question's id.
AnsweredBadlyUnderAnyId(q, ans) ==
  \E k \in DOMAIN ans : ans[k] # GoodAnswer(q)

\* user_answer is not None and user_answer != good_answer
AnsweredBadly(q, ans) ==
  /\ q.id \in DOMAIN ans
  /\ ans[q.id] # GoodAnswer(q)

\* Line 37: sum(q["weight"] for q in questions), left to right from 0.
RECURSIVE SumWeights(_, _, _)
SumWeights(qs, i, acc) ==
  IF i > Len(qs) THEN [err |-> "none", val |-> acc]
  ELSE IF "weight" \notin DOMAIN qs[i] THEN [err |-> "KeyError", val |-> acc]
  ELSE IF qs[i].weight.type # "int" THEN [err |-> "TypeError", val |-> acc]
  ELSE SumWeights(qs, i + 1, acc + qs[i].weight.val)

\* Mutant: a bad answer overwrites the pillar's risk instead of adding to it.
LoopBodyPillarRiskOverwritten(st, q, ans) ==
  IF "pillar" \notin DOMAIN q THEN [st EXCEPT !.err = "KeyError"]
  ELSE IF "id" \notin DOMAIN q THEN [st EXCEPT !.err = "KeyError"]
  ELSE
    LET pmax == DictSet(st.pillar_max, q.pillar,
                        DictGet(st.pillar_max, q.pillar, 0) + q.weight.val)
    IN IF AnsweredBadly(q, ans)
       THEN [st EXCEPT !.pillar_max = pmax,
                       !.risk_points = st.risk_points + q.weight.val,
                       !.pillar_risk = DictSet(st.pillar_risk, q.pillar, q.weight.val)]
       ELSE [st EXCEPT !.pillar_max = pmax,
                       !.pillar_risk = DictSet(st.pillar_risk, q.pillar,
                                  DictGet(st.pillar_risk, q.pillar, 0))]

\* One iteration of the loop of lines 43-55 on the locals st.
LoopBody(st, q, ans) ==
  IF "pillar" \notin DOMAIN q THEN [st EXCEPT !.err = "KeyError"]
  ELSE IF "id" \notin DOMAIN q THEN [st EXCEPT !.err = "KeyError"]
  ELSE
    LET pillar == q.pillar
        weight == q.weight.val
        pmax   == DictSet(st.pillar_max, pillar,
                          DictGet(st.pillar_max, pillar, 0) + weight)
    IN IF AnsweredBadly(q, ans)
       THEN [st EXCEPT !.pillar_max = pmax,
                       !.risk_points = st.risk_points + weight,
                       !.pillar_risk = DictSet(st.pillar_risk, pillar,
                                  DictGet(st.pillar_risk, pillar, 0) + weight)]
       ELSE [st EXCEPT !.pillar_max = pmax,
                       !.pillar_risk = DictSet(st.pillar_risk, pillar,
                                  DictGet(st.pillar_risk, pillar, 0))]

RECURSIVE ScoreLoop(_, _, _, _)
ScoreLoop(st, qs, i, ans) ==
  IF i > Len(qs) \/ st.err # "none" THEN st
  ELSE ScoreLoop(LoopBody(st, qs[i], ans), qs, i + 1, ans)

\* Mutant: a catalog without weight counts as fully at risk.
RiskPercentageFullWhenNoMax(risk_points, max_risk) ==
  IF max_risk = 0 THEN FromInt(100)
  ELSE Times100(Frac(risk_points, max_risk))

\* Lines 57-60.
RiskPercentage(risk_points, max_risk) ==
  IF max_risk = 0 THEN FromInt(0)
  ELSE Times100(Frac(risk_points, max_risk))

\* Mutant: the percentage is not inverted.
SecurityScoreNotInverted(risk_percentage) == risk_percentage

\* Line 62.
SecurityScore(risk_percentage) == HundredMinus(risk_percentage)

\* Mutant: the lower bounds are exclusive.
RiskLevelExclusive(security_score) ==
  IF security_score.num > 80 * security_score.den THEN "LOW"
  ELSE IF security_score.num > 50 * security_score.den THEN "MEDIUM"
  ELSE "HIGH"

\* Lines 64-69.
RiskLevel(security_score) ==
  IF GreaterEq(security_score, 80) THEN "LOW"
  ELSE IF GreaterEq(security_score, 50) THEN "MEDIUM"
  ELSE "HIGH"

\* Mutant: the pillar's risk percentage is stored, not its security score.
PillarScoresAsRisk(pillar_max, pillar_risk) ==
  [p \in DOMAIN pillar_max |->
     IF pillar_max[p] = 0 THEN FromInt(100)
     ELSE Times100(Frac(DictGet(pillar_risk, p, 0), pillar_max[p]))]

\* Lines 79-87.
PillarScores(pillar_max, pillar_risk) ==
  [p \in DOMAIN pillar_max |->
     LET max_w  == pillar_max[p]
         risk_w == DictGet(pillar_risk, p, 0)
     IN IF max_w = 0 THEN FromInt(100)
        ELSE HundredMinus(Times100(Frac(risk_w, max_w)))]

NoDict == <<>>

\* The whole call: the locals at the point where it returns or raises.
calculate_scores(qs, ans) ==
  LET total == SumWeights(qs, 1, 0)
      st0 == [err |-> total.err, max_risk |-> total.val, risk_points |-> 0,
              pillar_max |-> NoDict, pillar_risk |-> NoDict]
      st == ScoreLoop(st0, qs, 1, ans)
      risk_percentage == RiskPercentage(st.risk_points, st.max_risk)
      security_score == SecurityScore(risk_percentage)
  IN IF st.err # "none"
     THEN [err |-> st.err, locals |-> st, summary |-> NoDict,
           pillar_scores |-> NoDict]
     ELSE [err |-> "none", locals |-> st,
           summary |-> [risk_points |-> st.risk_points,
                        max_risk |-> st.max_risk,
                        risk_percentage |-> risk_percentage,
                        security_score |-> security_score,
                        risk_level |-> RiskLevel(security_score)],
           pillar_scores |-> PillarScores(st.pillar_max, st.pillar_risk)]

\* ----------------------------------------------- generate_recommendations
\* The map of lines 100-121 has a text, each different, for Q1 .. Q20; its
\* entries for Q1 and Q2 are kept, and "Q21" stands for an id without a text.
recommendation_map ==
  [i \in {"Q1", "Q2"} |->
     IF i = "Q1"
     THEN "Create and keep an up-to-date list of all company devices (laptops, phones, servers, tablets) and review it regularly."
     ELSE "Define an approved software list and uninstall or block software that is not needed or not approved."]

Contains(s, e) == \E k \in 1..Len(s) : s[k] = e

\* Mutant: the "not in recs" test is dropped.
RecBodyNoDedup(r, q, ans) ==
  IF "id" \notin DOMAIN q THEN [r EXCEPT !.err = "KeyError"]
  ELSE IF AnsweredBadly(q, ans)
          /\ q.id \in DOMAIN recommendation_map
          /\ recommendation_map[q.id] # ""
       THEN [r EXCEPT !.recs = Append(r.recs, recommendation_map[q.id])]
       ELSE r

\* One iteration of the loop of lines 123-131 on recs.
RecBody(r, q, ans) ==
  IF "id" \notin DOMAIN q THEN [r EXCEPT !.err = "KeyError"]
  ELSE IF AnsweredBadly(q, ans)
          /\ q.id \in DOMAIN recommendation_map
          /\ recommendation_map[q.id] # ""
          /\ ~Contains(r.recs, recommendation_map[q.id])
       THEN [r EXCEPT !.recs = Append(r.recs, recommendation_map[q.id])]
       ELSE r

RECURSIVE RecLoop(_, _, _, _)
RecLoop(r, qs, i, ans) ==
  IF i > Len(qs) \/ r.err # "none" THEN r
  ELSE RecLoop(RecBody(r, qs[i], ans), qs, i + 1, ans)

generate_recommendations(qs, ans) ==
  RecLoop([err |-> "none", recs |-> <<>>], qs, 1, ans)

\* ------------------------------------------------------------------ state
VARIABLES
  pc,            \* "idle", "scored", "raised", "recommended"
  questions,     \* the catalog passed to the calls
  answers,       \* the answers mapping passed to the calls
  max_risk, risk_points, pillar_max, pillar_risk,   \* locals of calculate_scores
  summary, pillar_scores,                           \* its return value
  recs,          \* return value of generate_recommendations
  error          \* the exception that ended a call, "none" otherwise

\* A front-end session (src/app/console_app.py, src/app/web_app.py).
VARIABLES
  fe,            \* "console" or "web"; "none" when no front end runs
  file,          \* questions.json: [status, content]
  fe_pc,         \* where the console's main is; "ready" between two web runs
  loaded,        \* what load_questions returned to the front end
  collected,     \* the answers collected so far
  qi,            \* the console's next question, 1-based
  calls,         \* the calls of the core made by this session or web run
  event,         \* what started the last web run
  inputs,        \* the web page's text inputs
  session_state, \* st.session_state: [radio, data]
  shown          \* what the session or the last web run presented

\* Independent sessions that call the core on one shared catalog
\* (spec.md section 5).
VARIABLES
  shared,        \* the catalog all sessions pass
  sess           \* per session: position, own answers, frame

coreVars == <<pc, questions, answers, max_risk, risk_points, pillar_max,
              pillar_risk, summary, pillar_scores, recs, error>>
feVars == <<fe, file, fe_pc, loaded, collected, qi, calls, event, inputs,
            session_state, shown>>
sessVars == <<shared, sess>>

vars == <<coreVars, feVars, sessVars>>

NoData == [present |-> FALSE]
NoEvent == [kind |-> "none"]
NoInputs == [name |-> "", business |-> "", email |-> ""]
NothingShown == [message |-> "", form |-> FALSE, results |-> NoData, emailed |-> "no"]

\* No front end runs.
FrontEndUnused ==
  /\ fe = "none"
  /\ file = [status |-> "missing", content |-> <<>>]
  /\ fe_pc = "none"
  /\ loaded = <<>>
  /\ collected = NoDict
  /\ qi = 1
  /\ calls = <<>>
  /\ event = NoEvent
  /\ inputs = NoInputs
  /\ session_state = [radio |-> NoDict, data |-> NoData]
  /\ shown = NothingShown

\* No concurrent sessions run.
SessionsUnused ==
  /\ shared = <<>>
  /\ sess = <<>>

\* Only a front end or the sessions run: the single call's state is unused.
CoreUnused ==
  /\ pc = "none"
  /\ questions = <<>>
  /\ answers = NoDict
  /\ max_risk = 0
  /\ risk_points = 0
  /\ pillar_max = NoDict
  /\ pillar_risk = NoDict
  /\ summary = NoDict
  /\ pillar_scores = NoDict
  /\ recs = <<>>
  /\ error = "none"

\* The state before the calls: the arguments are chosen, nothing is computed.
Start(cats) ==
  /\ pc = "idle"
  /\ questions \in cats
  /\ answers \in AnswerMaps
  /\ max_risk = 0
  /\ risk_points = 0
  /\ pillar_max = NoDict
  /\ pillar_risk = NoDict
  /\ summary = NoDict
  /\ pillar_scores = NoDict
  /\ recs = <<>>
  /\ error = "none"
  /\ FrontEndUnused
  /\ SessionsUnused

Init == Start(Catalogs)

InitConfig == Start(RawCatalogs)

\* summary, pillar_scores = calculate_scores(questions, answers)
CalculateScores ==
  /\ pc = "idle"
  /\ LET res == calculate_scores(questions, answers) IN
       /\ max_risk' = res.locals.max_risk
       /\ risk_points' = res.locals.risk_points
       /\ pillar_max' = res.locals.pillar_max
       /\ pillar_risk' = res.locals.pillar_risk
       /\ summary' = res.summary
       /\ pillar_scores' = res.pillar_scores
       /\ error' = res.err
       /\ pc' = IF res.err = "none" THEN "scored" ELSE "raised"
  /\ UNCHANGED <<questions, answers, recs, feVars, sessVars>>

\* recs = generate_recommendations(questions, answers), on the same arguments
GenerateRecommendations ==
  /\ pc = "scored"
  /\ LET res == generate_recommendations(questions, answers) IN
       /\ recs' = res.recs
       /\ error' = res.err
       /\ pc' = IF res.err = "none" THEN "recommended" ELSE "raised"
  /\ UNCHANGED <<questions, answers, max_risk, risk_points, pillar_max,
                 pillar_risk, summary, pillar_scores, feVars, sessVars>>

Next ==
  \/ CalculateScores
  \/ GenerateRecommendations

\* Calls on well-shaped catalogs.
Spec == Init /\ [][Next]_vars

\* Calls on catalogs as a questions.json may hold them.
SpecConfig == InitConfig /\ [][Next]_vars

\* ------------------------------------------------------------ front ends
\* questions.json as the front ends read it: missing, not JSON, or a list of
\* well-shaped records (with the "text" the front ends display).  The file is
\* static configuration: it does not change during a session.
FileQuestions ==
  { [id |-> "Q1", text |-> "Do you keep a list of all devices?",
     pillar |-> "Identify", weight |-> Num(1)],
    [id |-> "Q2", text |-> "Is any unapproved software installed?",
     pillar |-> "Protect", weight |-> Num(MaxWeight), good_answer |-> "no"] }

Files ==
  { [status |-> st, content |-> <<>>] : st \in {"missing", "invalid_json"} }
    \cup { [status |-> "ok", content |-> c] : c \in SeqsUpTo(FileQuestions, MaxQ) }

\* logic.py lines 10-22: the list of the file, or [] after printing an ERROR
\* line when the file is missing or is not JSON.
load_questions(f) == IF f.status = "ok" THEN f.content ELSE <<>>

\* Mutant: an empty list is not taken as a failed load.
LoadFailedNever(qs) == FALSE

\* "if not questions", console_app.py line 67 and web_app.py line 452
LoadFailed(qs) == qs = <<>>

Call(fn, qs, ans) == [fn |-> fn, questions |-> qs, answers |-> ans]

Results(present, summ, pscores, rs) ==
  [present |-> present, summary |-> summ, pillar_scores |-> pscores, recs |-> rs]

\* ---- console_app.py
RawInputs == {"yes", "Y ", "no", "N", "maybe", ""}

\* input(...).strip().lower()
StripLower(raw) ==
  CASE raw = "Y " -> "y"
    [] raw = "N" -> "n"
    [] OTHER -> raw

\* One pass of the loop of ask_yes_no (lines 11-18): the answer, or "reprompt".
ask_yes_no(raw) ==
  IF StripLower(raw) \in {"yes", "y"} THEN "yes"
  ELSE IF StripLower(raw) \in {"no", "n"} THEN "no"
  ELSE "reprompt"

\* main, lines 65-69
ConsoleLoad ==
  /\ fe = "console"
  /\ fe_pc = "start"
  /\ loaded' = load_questions(file)
  /\ IF LoadFailed(load_questions(file))
     THEN /\ fe_pc' = "stopped"
          /\ shown' = [shown EXCEPT !.message = "No questions loaded. Please check questions.json."]
     ELSE /\ fe_pc' = "asking"
          /\ shown' = shown
  /\ UNCHANGED <<fe, file, collected, qi, calls, event, inputs, session_state,
                 coreVars, sessVars>>

\* ask_questions, lines 29-32: one line typed at the prompt of question qi
ConsoleAsk ==
  /\ fe = "console"
  /\ fe_pc = "asking"
  /\ qi <= Len(loaded)
  /\ \E raw \in RawInputs :
       IF ask_yes_no(raw) = "reprompt"
       THEN /\ shown' = [shown EXCEPT !.message = "Please answer with 'yes' or 'no' (or y/n)."]
            /\ UNCHANGED <<collected, qi>>
       ELSE /\ collected' = DictSet(collected, loaded[qi].id, ask_yes_no(raw))
            /\ qi' = qi + 1
            /\ shown' = [shown EXCEPT !.message = ""]
  /\ UNCHANGED <<fe, file, fe_pc, loaded, calls, event, inputs, session_state,
                 coreVars, sessVars>>

\* main, lines 72-83: ask_questions has returned; score, recommend, print
ConsoleReport ==
  /\ fe = "console"
  /\ fe_pc = "asking"
  /\ qi > Len(loaded)
  /\ LET res == calculate_scores(loaded, collected)
         rec == generate_recommendations(loaded, collected)
     IN /\ calls' = <<Call("calculate_scores", loaded, collected),
                      Call("generate_recommendations", loaded, collected)>>
        /\ shown' = [shown EXCEPT
                       !.message = "Thank you for completing the assessment.",
                       !.results = Results(TRUE, res.summary, res.pillar_scores, rec.recs)]
  /\ fe_pc' = "done"
  /\ UNCHANGED <<fe, file, loaded, collected, qi, event, inputs, session_state,
                 coreVars, sessVars>>

\* ---- web_app.py
Choices == {"Please select...", "Yes", "No"}

WebInputs ==
  [name : {"", "Ann", " Ann "}, business : {"", "ACME"},
   email : {"", "ann", "ann@acme.au"}]

\* str.strip() on the text inputs
Strip(t) == IF t = " Ann " THEN "Ann" ELSE t

\* "@" in participant_email
HasAt(t) == t = "ann@acme.au"

\* raw.strip().lower() starts with "y" / "n" (lines 30-34)
RadioAnswer(raw) ==
  CASE raw = "Yes" -> "yes"
    [] raw = "No" -> "no"
    [] OTHER -> "skip"

\* get_answers_from_session, lines 22-36, on the radio values of session_state
RECURSIVE AnswersFromSession(_, _, _, _)
AnswersFromSession(qs, radio, i, acc) ==
  IF i > Len(qs) THEN acc
  ELSE IF qs[i].id \notin DOMAIN radio \/ RadioAnswer(radio[qs[i].id]) = "skip"
       THEN AnswersFromSession(qs, radio, i + 1, acc)
       ELSE AnswersFromSession(qs, radio, i + 1,
                               DictSet(acc, qs[i].id, RadioAnswer(radio[qs[i].id])))

get_answers_from_session(qs, radio) == AnswersFromSession(qs, radio, 1, NoDict)

\* Mutant: no question counts as missing.
MissingNone(qs, ans) == {}

\* line 490: the ids without an answer
Missing(qs, ans) == { qs[i].id : i \in { j \in 1..Len(qs) : qs[j].id \notin DOMAIN ans } }

\* Mutant: the '@' test of lines 478-480 is dropped.
SubmissionErrorNoAtTest(inp, qs, radio) ==
  IF inp.name = "" \/ inp.business = "" \/ inp.email = ""
  THEN "Please enter your name, business name and email address before calculating your score."
  ELSE IF Missing(qs, get_answers_from_session(qs, radio)) # {}
  THEN "Please answer all questions before calculating your score."
  ELSE ""

\* lines 475-493: the error that rejects a submission, "" when it is accepted
SubmissionError(inp, qs, radio) ==
  IF inp.name = "" \/ inp.business = "" \/ inp.email = ""
  THEN "Please enter your name, business name and email address before calculating your score."
  ELSE IF ~HasAt(inp.email)
  THEN "Please enter a valid email address (it should contain '@')."
  ELSE IF Missing(qs, get_answers_from_session(qs, radio)) # {}
  THEN "Please answer all questions before calculating your score."
  ELSE ""

\* The radio widgets after the form is rendered (lines 458-466): submitted
\* values on a submission, the kept value otherwise, the first option at first.
RadioAfter(qs, old, ev) ==
  [id \in { qs[i].id : i \in 1..Len(qs) } |->
     IF ev.kind = "submit" /\ id \in DOMAIN ev.form THEN ev.form[id]
     ELSE DictGet(old, id, "Please select...")]

InfoMessage == "Please complete Step 1 and click 'Calculate my cyber risk' to see your results."

\* One run of main (lines 417-625) started by the event ev: what it leaves in
\* session_state, what it shows and which calls of the core it makes.
web_main(f, inp, ss, ev, smtp_ok) ==
  LET qs == load_questions(f) IN
  IF LoadFailed(qs)
  THEN [loaded |-> qs, collected |-> NoDict, calls |-> <<>>, session_state |-> ss,
        shown |-> [NothingShown EXCEPT
                     !.message = "Could not load questions.json. Please check the file."]]
  ELSE
    LET radio == RadioAfter(qs, ss.radio, ev)
        ss1 == [ss EXCEPT !.radio = radio]
        ans == get_answers_from_session(qs, radio)
        rejected == ev.kind = "submit" /\ SubmissionError(inp, qs, radio) # ""
        accepted == ev.kind = "submit" /\ SubmissionError(inp, qs, radio) = ""
        res == calculate_scores(qs, ans)
        rec == generate_recommendations(qs, ans)
        data == [present |-> TRUE,
                 participant |-> [name |-> Strip(inp.name),
                                  business |-> Strip(inp.business),
                                  email |-> Strip(inp.email)],
                 summary |-> res.summary, pillar_scores |-> res.pillar_scores,
                 recs |-> rec.recs]
        ss2 == IF accepted THEN [ss1 EXCEPT !.data = data] ELSE ss1
        made == IF accepted
                THEN <<Call("calculate_scores", qs, ans),
                       Call("generate_recommendations", qs, ans)>>
                ELSE <<>>
        answersSeen == IF rejected /\ SubmissionError(inp, qs, radio)
                                        # "Please answer all questions before calculating your score."
                       THEN NoDict ELSE IF ev.kind = "submit" THEN ans ELSE NoDict
    IN IF rejected
       THEN [loaded |-> qs, collected |-> answersSeen, calls |-> <<>>,
             session_state |-> ss1,
             shown |-> [NothingShown EXCEPT !.message = SubmissionError(inp, qs, radio),
                                            !.form = TRUE]]
       ELSE IF ~ss2.data.present
       THEN [loaded |-> qs, collected |-> answersSeen, calls |-> made,
             session_state |-> ss2,
             shown |-> [NothingShown EXCEPT !.message = InfoMessage, !.form = TRUE]]
       ELSE IF ev.kind = "new"
       \* session_state.clear() and st.rerun(): the run starts over on an empty state
       THEN [loaded |-> qs, collected |-> NoDict, calls |-> <<>>,
             session_state |-> [radio |-> RadioAfter(qs, NoDict, NoEvent), data |-> NoData],
             shown |-> [NothingShown EXCEPT !.message = InfoMessage, !.form = TRUE]]
       ELSE [loaded |-> qs, collected |-> answersSeen, calls |-> made,
             session_state |-> ss2,
             shown |-> [message |-> IF ev.kind # "email" THEN ""
                                    ELSE IF smtp_ok THEN "Report emailed successfully."
                                    ELSE "Could not send email",
                        form |-> TRUE,
                        results |-> ss2.data,
                        emailed |-> IF ev.kind = "email" /\ smtp_ok
                                    THEN ss2.data.participant.email ELSE "no"]]

WebRun(inp, ev, smtp_ok) ==
  LET out == web_main(file, inp, session_state, ev, smtp_ok) IN
    /\ inputs' = inp
    /\ event' = ev
    /\ loaded' = out.loaded
    /\ collected' = out.collected
    /\ calls' = out.calls
    /\ session_state' = out.session_state
    /\ shown' = out.shown
    /\ UNCHANGED <<fe, file, fe_pc, qi, coreVars, sessVars>>

\* The page is opened, or a text input is changed.
WebEdit ==
  /\ fe = "web"
  /\ \E inp \in WebInputs : WebRun(inp, [kind |-> "edit"], TRUE)

\* "Calculate my cyber risk" is clicked with some choice on every radio.
WebSubmit ==
  /\ fe = "web"
  /\ shown.form
  /\ \E form \in [DOMAIN session_state.radio -> Choices] :
       WebRun(inputs, [kind |-> "submit", form |-> form], TRUE)

\* "Email this report to me" is clicked; the SMTP exchange works or not.
WebEmail ==
  /\ fe = "web"
  /\ shown.results.present
  /\ \E smtp_ok \in BOOLEAN : WebRun(inputs, [kind |-> "email"], smtp_ok)

\* "Start a new assessment" is clicked.
WebNew ==
  /\ fe = "web"
  /\ shown.results.present
  /\ WebRun(inputs, [kind |-> "new"], TRUE)

InitFrontEnd ==
  /\ fe \in {"console", "web"}
  /\ file \in Files
  /\ fe_pc = IF fe = "console" THEN "start" ELSE "ready"
  /\ loaded = <<>>
  /\ collected = NoDict
  /\ qi = 1
  /\ calls = <<>>
  /\ event = NoEvent
  /\ inputs = NoInputs
  /\ session_state = [radio |-> NoDict, data |-> NoData]
  /\ shown = NothingShown
  /\ CoreUnused
  /\ SessionsUnused

NextFrontEnd ==
  \/ ConsoleLoad
  \/ ConsoleAsk
  \/ ConsoleReport
  \/ WebEdit
  \/ WebSubmit
  \/ WebEmail
  \/ WebNew

\* One session of the console or of the web page.
SpecFrontEnd == InitFrontEnd /\ [][NextFrontEnd]_vars

\* ------------------------------------------------- concurrent sessions
\* Independent sessions call calculate_scores and then
\* generate_recommendations on one shared catalog, each with its own answers;
\* their steps (one loop iteration each) interleave freely.
Sessions == {1, 2}

SessionAnswers == UNION { [D -> AnswerValues] : D \in SUBSET {"Q1", "Q2"} }

EmptyFrame == [err |-> "none", max_risk |-> 0, risk_points |-> 0,
               pillar_max |-> NoDict, pillar_risk |-> NoDict, recs |-> <<>>]

\* Mutant: the locals live in one module-level store that all calls use.
FrameShared(s) == 1

\* max_risk, risk_points, pillar_max, pillar_risk (lines 37-41) and recs
\* (line 97) are locals: every call has its own.
Frame(s) == s

InCall(s) == sess[s].pc \in {"loop", "recloop"}

\* session s takes a step while another session is inside a call
Mixes(s) == sess[s].mixed \/ \E t \in Sessions \ {s} : InCall(t)

InitSessions ==
  /\ shared \in SeqsUpTo(FileQuestions, MaxQ)
  /\ \E a \in [Sessions -> SessionAnswers] :
       sess = [s \in Sessions |->
                 [pc |-> "idle", answers |-> a[s], i |-> 1, frame |-> EmptyFrame,
                  summary |-> NoDict, pillar_scores |-> NoDict, recs |-> <<>>,
                  mixed |-> FALSE]]
  /\ CoreUnused
  /\ FrontEndUnused

\* calculate_scores, lines 37-41
SessBegin(s) ==
  /\ sess[s].pc = "idle"
  /\ LET total == SumWeights(shared, 1, 0) IN
       sess' = [sess EXCEPT
                  ![Frame(s)].frame = [EmptyFrame EXCEPT !.err = total.err,
                                                         !.max_risk = total.val],
                  ![s].pc = "loop", ![s].i = 1, ![s].mixed = Mixes(s)]
  /\ UNCHANGED <<shared, coreVars, feVars>>

\* calculate_scores, one iteration of lines 43-55
SessIterate(s) ==
  /\ sess[s].pc = "loop"
  /\ sess[s].i <= Len(shared)
  /\ sess' = [sess EXCEPT
                ![Frame(s)].frame =
                   [LoopBody(sess[Frame(s)].frame, shared[sess[s].i], sess[s].answers)
                      EXCEPT !.recs = sess[Frame(s)].frame.recs],
                ![s].i = sess[s].i + 1, ![s].mixed = Mixes(s)]
  /\ UNCHANGED <<shared, coreVars, feVars>>

\* calculate_scores, lines 57-89
SessReturn(s) ==
  /\ sess[s].pc = "loop"
  /\ sess[s].i > Len(shared)
  /\ LET st == sess[Frame(s)].frame
         risk_percentage == RiskPercentage(st.risk_points, st.max_risk)
         security_score == SecurityScore(risk_percentage)
     IN sess' = [sess EXCEPT
                   ![s].summary = [risk_points |-> st.risk_points,
                                   max_risk |-> st.max_risk,
                                   risk_percentage |-> risk_percentage,
                                   security_score |-> security_score,
                                   risk_level |-> RiskLevel(security_score)],
                   ![s].pillar_scores = PillarScores(st.pillar_max, st.pillar_risk),
                   ![s].pc = "scored", ![s].mixed = Mixes(s)]
  /\ UNCHANGED <<shared, coreVars, feVars>>

\* generate_recommendations, line 97
SessRecBegin(s) ==
  /\ sess[s].pc = "scored"
  /\ sess' = [sess EXCEPT ![Frame(s)].frame.recs = <<>>,
                          ![s].pc = "recloop", ![s].i = 1, ![s].mixed = Mixes(s)]
  /\ UNCHANGED <<shared, coreVars, feVars>>

\* generate_recommendations, one iteration of lines 123-131
SessRecIterate(s) ==
  /\ sess[s].pc = "recloop"
  /\ sess[s].i <= Len(shared)
  /\ sess' = [sess EXCEPT
                ![Frame(s)].frame.recs =
                   RecBody([err |-> "none", recs |-> sess[Frame(s)].frame.recs],
                           shared[sess[s].i], sess[s].answers).recs,
                ![s].i = sess[s].i + 1, ![s].mixed = Mixes(s)]
  /\ UNCHANGED <<shared, coreVars, feVars>>

\* generate_recommendations, line 133
SessRecReturn(s) ==
  /\ sess[s].pc = "recloop"
  /\ sess[s].i > Len(shared)
  /\ sess' = [sess EXCEPT ![s].recs = sess[Frame(s)].frame.recs,
                          ![s].pc = "done", ![s].mixed = Mixes(s)]
  /\ UNCHANGED <<shared, coreVars, feVars>>

NextSessions ==
  \E s \in Sessions :
    \/ SessBegin(s)
    \/ SessIterate(s)
    \/ SessReturn(s)
    \/ SessRecBegin(s)
    \/ SessRecIterate(s)
    \/ SessRecReturn(s)

SpecSessions == InitSessions /\ [][NextSessions]_vars

\* ---------------------------------------------------------------- claims
\* The claims speak of the arguments and the returned values only; the
\* definitions below restate "answered", "good answer" and the sums from the
\* data, without the operators of the calls.
Returned == pc \in {"scored", "recommended"}
Idx == 1..Len(questions)
HasAnswer(i) == questions[i].id \in DOMAIN answers
Good(i) ==
  IF "good_answer" \in DOMAIN questions[i] THEN questions[i].good_answer ELSE "yes"
Bad(i) == HasAnswer(i) /\ answers[questions[i].id] # Good(i)
W(i) == questions[i].weight.val
CatalogIds == { questions[i].id : i \in Idx }
CatalogPillars == { questions[i].pillar : i \in Idx }

RECURSIVE SumW(_)
SumW(S) == IF S = {} THEN 0
           ELSE LET i == CHOOSE x \in S : TRUE IN W(i) + SumW(S \ {i})

IsNumber(x, n) == x.den > 0 /\ x.num = n * x.den

\* C1: the returned summary has security_score + risk_percentage = 100 and
\* 0 <= security_score <= 100, whatever the (non-negative) weights and
\* whatever the answers mapping (complete, partial, empty, with foreign ids).
C1_ScorePlusRiskIsHundred ==
  Returned =>
    LET s == summary.security_score
        r == summary.risk_percentage
    IN /\ s.den > 0 /\ r.den > 0
       /\ s.num * r.den + r.num * s.den = 100 * s.den * r.den
       /\ 0 <= s.num
       /\ s.num <= 100 * s.den

C1_Witness ==
  /\ pc = "scored"
  /\ Len(questions) = MaxQ
  /\ \E i \in Idx : Bad(i) /\ W(i) > 0
  /\ \E i \in Idx : ~HasAnswer(i) /\ W(i) > 0
  /\ \E k \in DOMAIN answers : k \notin CatalogIds
  /\ summary.risk_points > 0
  /\ summary.risk_points < summary.max_risk

\* C2: risk_level is LOW exactly when security_score >= 80, MEDIUM exactly
\* when 50 <= security_score < 80, HIGH exactly when security_score < 50.
C2_TierBoundsInclusive ==
  Returned =>
    LET s == summary.security_score
        l == summary.risk_level
    IN /\ l \in {"LOW", "MEDIUM", "HIGH"}
       /\ (l = "LOW") <=> (s.num >= 80 * s.den)
       /\ (l = "MEDIUM") <=> (s.num >= 50 * s.den /\ s.num < 80 * s.den)
       /\ (l = "HIGH") <=> (s.num < 50 * s.den)

\* a score of exactly 80 (weights 1 and 4, the weight-1 question answered badly)
C2_Witness ==
  /\ pc = "scored"
  /\ IsNumber(summary.security_score, 80)
  /\ summary.risk_level = "LOW"

\* C3 as stated: every question answered, every answer differing from the
\* good answer, gives risk_points = max_risk, security_score = 0 and HIGH,
\* for every catalog.
AllAnsweredBadly == \A i \in Idx : Bad(i)

C3_AllBadIsZeroHigh ==
  (Returned /\ AllAnsweredBadly) =>
    /\ summary.risk_points = summary.max_risk
    /\ IsNumber(summary.security_score, 0)
    /\ summary.risk_level = "HIGH"

\* C3 as amended: every question answered, every answer differing from the
\* good answer, gives risk_points = max_risk, and security_score = 0 and HIGH
\* whenever max_risk > 0.
C3_AllBadIsZeroHighWhenWeighted ==
  (Returned /\ AllAnsweredBadly) =>
    /\ summary.risk_points = summary.max_risk
    /\ summary.max_risk > 0 =>
         /\ IsNumber(summary.security_score, 0)
         /\ summary.risk_level = "HIGH"

C3_Witness ==
  /\ pc = "scored"
  /\ Len(questions) = MaxQ
  /\ AllAnsweredBadly
  /\ \E i \in Idx : "good_answer" \in DOMAIN questions[i]
  /\ summary.max_risk > 0
  /\ IsNumber(summary.security_score, 0)

\* C4: if every answer present equals its question's good answer, then
\* risk_points = 0, security_score = 100, risk_level = LOW, and
\* generate_recommendations returns the empty list.
AllPresentGood == \A i \in Idx : HasAnswer(i) => answers[questions[i].id] = Good(i)

C4_AllGoodIsHundredLowNoRecs ==
  AllPresentGood =>
    /\ Returned =>
         /\ summary.risk_points = 0
         /\ IsNumber(summary.security_score, 100)
         /\ summary.risk_level = "LOW"
    /\ pc = "recommended" => recs = <<>>

C4_Witness ==
  /\ pc = "recommended"
  /\ AllPresentGood
  /\ \E i \in Idx : /\ HasAnswer(i) /\ W(i) > 0 /\ Good(i) = "no"
                    /\ questions[i].id \in DOMAIN recommendation_map
  /\ \E i \in Idx : HasAnswer(i) /\ W(i) > 0 /\ Good(i) = "yes"
  /\ recs = <<>>

\* C5: risk_points is the sum of the weights of exactly the questions that
\* have an answer differing from the good answer (and so is each pillar's
\* risk); an unanswered question adds nothing, and removing an answer never
\* raises risk_points.
Without(f, k) == [x \in (DOMAIN f) \ {k} |-> f[x]]

C5_UnansweredAddsNoRisk ==
  Returned =>
    /\ summary.risk_points = SumW({ i \in Idx : Bad(i) })
    /\ \A p \in DOMAIN pillar_risk :
         pillar_risk[p] = SumW({ i \in Idx : questions[i].pillar = p /\ Bad(i) })
    /\ \A k \in DOMAIN answers :
         calculate_scores(questions, Without(answers, k)).summary.risk_points
           <= summary.risk_points

C5_Witness ==
  /\ pc = "scored"
  /\ \E i, j \in Idx :
       /\ ~HasAnswer(i) /\ W(i) > 0
       /\ Bad(j) /\ W(j) > 0
       /\ questions[i].pillar = questions[j].pillar
       /\ summary.risk_points = W(j)

\* C6: pillar_scores has exactly one entry per pillar of the catalog; the
\* entry is 100 when the pillar's weights sum to 0 and otherwise
\* 100 - (weights of its badly answered questions / its weights) * 100.
C6_PillarScores ==
  Returned =>
    /\ DOMAIN pillar_scores = CatalogPillars
    /\ \A p \in CatalogPillars :
         LET tot == SumW({ i \in Idx : questions[i].pillar = p })
             bad == SumW({ i \in Idx : questions[i].pillar = p /\ Bad(i) })
             ps  == pillar_scores[p]
         IN IF tot = 0 THEN IsNumber(ps, 100)
            ELSE ps.den > 0 /\ ps.num * tot = ps.den * (100 * tot - 100 * bad)

\* weights 1 and 3 in one pillar, only the weight-1 question answered badly: 75
C6_Witness ==
  /\ pc = "scored"
  /\ Len(questions) = 2
  /\ questions[1].pillar = "Protect" /\ questions[2].pillar = "Protect"
  /\ \E i, j \in Idx : W(i) = 1 /\ Bad(i) /\ W(j) = 3 /\ ~Bad(j)
  /\ IsNumber(pillar_scores["Protect"], 75)

\* C7: generate_recommendations returns, in catalog order, the text of each
\* question answered differently from its good answer whose id has a text;
\* an id without a text is skipped, and a text that qualifies more than once
\* appears once, at the position of the first qualifying question.
Text(i) == recommendation_map[questions[i].id]
Qualifies(i) == Bad(i) /\ questions[i].id \in DOMAIN recommendation_map
FirstQualifying ==
  { i \in Idx : Qualifies(i) /\ \A j \in 1..(i - 1) : Qualifies(j) => Text(j) # Text(i) }
Rank(i) == Cardinality({ j \in FirstQualifying : j <= i })

C7_RecommendationsInOrderOnce ==
  pc = "recommended" =>
    /\ Len(recs) = Cardinality(FirstQualifying)
    /\ \A i \in FirstQualifying : recs[Rank(i)] = Text(i)

\* the same id twice, both entries qualifying: its text appears once
C7_Witness ==
  /\ pc = "recommended"
  /\ Len(questions) = 2
  /\ questions[1].id = questions[2].id
  /\ Qualifies(1) /\ Qualifies(2)
  /\ Len(recs) = 1

\* C8: entries of answers whose id is not in the catalog affect nothing: both
\* calls return what they return for the mapping restricted to the catalog's
\* ids, and neither call fails.
Restricted == [k \in (DOMAIN answers) \cap CatalogIds |-> answers[k]]

C8_ForeignIdsIgnored ==
  /\ pc # "raised"
  /\ error = "none"
  /\ Returned =>
       /\ summary = calculate_scores(questions, Restricted).summary
       /\ pillar_scores = calculate_scores(questions, Restricted).pillar_scores
  /\ pc = "recommended" =>
       recs = generate_recommendations(questions, Restricted).recs

C8_Witness ==
  /\ pc = "recommended"
  /\ Len(questions) = MaxQ
  /\ \E k \in DOMAIN answers : k \notin CatalogIds /\ answers[k] = "no"
  /\ \E i \in Idx : Bad(i) /\ W(i) > 0
  /\ \E i \in Idx : HasAnswer(i) /\ ~Bad(i) /\ W(i) > 0
  /\ Len(recs) = 1

\* C9: for the empty catalog and any answers, calculate_scores returns
\* max_risk = 0, risk_percentage = 0, security_score = 100, LOW and an empty
\* pillar_scores, and does not fail.
C9_EmptyCatalog ==
  (questions = <<>> /\ pc # "idle") =>
    /\ pc # "raised"
    /\ summary.max_risk = 0
    /\ IsNumber(summary.risk_percentage, 0)
    /\ IsNumber(summary.security_score, 100)
    /\ summary.risk_level = "LOW"
    /\ DOMAIN pillar_scores = {}

C9_Witness ==
  /\ pc = "scored"
  /\ questions = <<>>
  /\ \E k \in DOMAIN answers : answers[k] = "no"

\* C10: a catalog that fails structural validation (an entry missing id,
\* weight or pillar, a duplicate id, a non-numeric weight, a good_answer
\* outside {yes, no}) is never scored: the call fails before any scoring step
\* and returns no summary and no pillar scores.
StructurallyValid(qs) ==
  /\ \A i \in 1..Len(qs) :
       /\ {"id", "weight", "pillar"} \subseteq DOMAIN qs[i]
       /\ qs[i].weight.type = "int"
       /\ "good_answer" \in DOMAIN qs[i] => qs[i].good_answer \in {"yes", "no"}
  /\ \A i, j \in 1..Len(qs) : i # j => qs[i].id # qs[j].id

C10_InvalidCatalogNeverScored ==
  (~StructurallyValid(questions) /\ pc # "idle") =>
    /\ pc = "raised"
    /\ DOMAIN summary = {}
    /\ DOMAIN pillar_scores = {}
    /\ risk_points = 0
    /\ DOMAIN pillar_max = {}

\* C16: the per-pillar accumulators partition the overall ones: the pillar
\* maxima sum to max_risk and the pillar risks sum to risk_points; so, when
\* max_risk > 0, security_score is the average of the pillar scores weighted
\* by each pillar's total weight, and security_score is 100 only if every
\* pillar score is 100.
RECURSIVE SumDict(_)
SumDict(d) ==
  IF DOMAIN d = {} THEN 0
  ELSE LET k == CHOOSE x \in DOMAIN d : TRUE
       IN d[k] + SumDict([x \in (DOMAIN d) \ {k} |-> d[x]])

RECURSIVE DenProduct(_)
DenProduct(P) ==
  IF P = {} THEN 1
  ELSE LET p == CHOOSE x \in P : TRUE
       IN pillar_scores[p].den * DenProduct(P \ {p})

\* sum over p in P of pillar_max[p] * pillar_scores[p], times the common denominator D
RECURSIVE WeightedScores(_, _)
WeightedScores(P, D) ==
  IF P = {} THEN 0
  ELSE LET p == CHOOSE x \in P : TRUE
       IN pillar_max[p] * pillar_scores[p].num * (D \div pillar_scores[p].den)
            + WeightedScores(P \ {p}, D)

C16_PillarsPartitionTotals ==
  Returned =>
    /\ DOMAIN pillar_risk = DOMAIN pillar_max
    /\ SumDict(pillar_max) = summary.max_risk
    /\ SumDict(pillar_risk) = summary.risk_points
    /\ summary.max_risk > 0 =>
         LET D == DenProduct(DOMAIN pillar_scores)
             s == summary.security_score
         IN s.den * WeightedScores(DOMAIN pillar_scores, D) = s.num * summary.max_risk * D
    /\ IsNumber(summary.security_score, 100) =>
         \A p \in DOMAIN pillar_scores : IsNumber(pillar_scores[p], 100)

\* two pillars of different weight and different score
C16_Witness ==
  /\ pc = "scored"
  /\ DOMAIN pillar_scores = Pillars
  /\ pillar_max["Identify"] > pillar_max["Protect"]
  /\ pillar_max["Protect"] > 0
  /\ pillar_risk["Identify"] > 0
  /\ pillar_risk["Protect"] = 0
  /\ ~IsNumber(summary.security_score, 100)

\* ---------------------------------------------------- claims: front ends
LoadDone == IF fe = "console" THEN fe_pc # "start" ELSE event.kind # "none"
LoadedIds == { loaded[i].id : i \in 1..Len(loaded) }
CouldNotLoad ==
  IF fe = "console" THEN "No questions loaded. Please check questions.json."
  ELSE "Could not load questions.json. Please check the file."

\* C11: when the question file is missing or is not valid JSON,
\* load_questions reports a load error that its caller can tell from a
\* successfully loaded empty catalog: the failure is not turned into an
\* empty list.
C11_LoadFailureIsNotAnEmptyList ==
  (LoadDone /\ file.status # "ok") =>
    /\ loaded # <<>>
    /\ loaded # load_questions([status |-> "ok", content |-> <<>>])

\* C13: in both front ends the core is called only with an answers mapping
\* that has an entry for every question id of the loaded catalog and whose
\* values are all "yes" or "no"; the console advances to the next question
\* only on such an answer, and the web form rejects a submission in which a
\* question is still unselected.
C13_CoreCalledWithCompleteAnswers ==
  /\ \A k \in 1..Len(calls) :
       /\ calls[k].questions = loaded
       /\ LoadedIds \subseteq DOMAIN calls[k].answers
       /\ \A id \in DOMAIN calls[k].answers : calls[k].answers[id] \in {"yes", "no"}
  /\ fe = "console" =>
       /\ DOMAIN collected = { loaded[i].id : i \in 1..(qi - 1) }
       /\ \A id \in DOMAIN collected : collected[id] \in {"yes", "no"}
  /\ (fe = "web" /\ event.kind = "submit"
        /\ \E id \in LoadedIds : session_state.radio[id] = "Please select...") =>
       /\ calls = <<>>
       /\ ~shown.results.present
       /\ shown.message # ""

C13_Witness ==
  /\ fe = "web"
  /\ event.kind = "submit"
  /\ Len(loaded) = 2
  /\ loaded[1].id # loaded[2].id
  /\ Len(calls) = 2
  /\ calls[1].fn = "calculate_scores"
  /\ calls[1].answers = [id \in {"Q1", "Q2"} |-> IF id = "Q1" THEN "no" ELSE "yes"]
  /\ shown.results.present

\* C14: in a session in which loading the question file failed (missing or
\* not JSON), neither core function is called and no score or risk level is
\* presented: the session stops after reporting that the questions could
\* not be loaded.
C14_FailedLoadIsNeverScored ==
  file.status # "ok" =>
    /\ calls = <<>>
    /\ ~shown.results.present
    /\ ~session_state.data.present
    /\ LoadDone =>
         /\ shown.message = CouldNotLoad
         /\ fe = "console" => fe_pc = "stopped"
         /\ fe = "web" => ~shown.form

C14_Witness ==
  /\ fe = "console"
  /\ file.status = "invalid_json"
  /\ fe_pc = "stopped"
  /\ shown.message = CouldNotLoad

\* C15: in the web front end assessment_data is written only by a submission
\* that passes every validation (non-empty name, business name and email,
\* '@' in the email, every question answered); a rejected submission leaves
\* the stored assessment_data unchanged and shows no results in that run;
\* results and the email action occur only while assessment_data is present,
\* and "Start a new assessment" removes it.
PassesValidation(inp, radio, qs) ==
  /\ inp.name # "" /\ inp.business # "" /\ inp.email # ""
  /\ inp.email = "ann@acme.au"
  /\ \A i \in 1..Len(qs) : qs[i].id \in DOMAIN radio /\ radio[qs[i].id] \in {"Yes", "No"}

C15_AssessmentDataLifecycle ==
  [][ fe = "web" =>
       /\ (session_state'.data # session_state.data /\ session_state'.data.present) =>
            /\ event'.kind = "submit"
            /\ PassesValidation(inputs', session_state'.radio, loaded')
       /\ (event'.kind = "submit"
             /\ ~PassesValidation(inputs', session_state'.radio, loaded')) =>
            /\ session_state'.data = session_state.data
            /\ ~shown'.results.present
       /\ shown'.results.present =>
            /\ session_state'.data.present
            /\ shown'.results = session_state'.data
       /\ shown'.emailed # "no" =>
            /\ session_state'.data.present
            /\ shown'.emailed = session_state'.data.participant.email
       /\ event'.kind = "new" => ~session_state'.data.present
    ]_vars

\* a rejected submission made while results of an earlier one are stored
C15_Witness ==
  /\ fe = "web"
  /\ event.kind = "submit"
  /\ session_state.data.present
  /\ ~PassesValidation(inputs, session_state.radio, loaded)
  /\ ~shown.results.present

\* ------------------------------------------------ claims: concurrency
\* C12: under any interleaving of calls made by independent sessions that
\* share one catalog, each call's result depends only on its own questions
\* and answers (it is what the call returns when run alone, so calls with
\* identical inputs return identical outputs), and no call modifies the
\* catalog or any answers mapping.
HasSummary(s) == sess[s].pc \in {"scored", "recloop", "done"}

ResultsOwnInputsOnly ==
  /\ \A s \in Sessions :
       /\ HasSummary(s) =>
            /\ sess[s].summary = calculate_scores(shared, sess[s].answers).summary
            /\ sess[s].pillar_scores
                 = calculate_scores(shared, sess[s].answers).pillar_scores
       /\ sess[s].pc = "done" =>
            sess[s].recs = generate_recommendations(shared, sess[s].answers).recs
  /\ \A s, t \in Sessions :
       (sess[s].pc = "done" /\ sess[t].pc = "done"
          /\ sess[s].answers = sess[t].answers) =>
         /\ sess[s].summary = sess[t].summary
         /\ sess[s].pillar_scores = sess[t].pillar_scores
         /\ sess[s].recs = sess[t].recs

C12_CallsArePure ==
  /\ []ResultsOwnInputsOnly
  /\ [][ /\ shared' = shared
         /\ \A s \in Sessions : sess'[s].answers = sess[s].answers
       ]_vars

\* two interleaved sessions with different answers and different results
C12_Witness ==
  /\ Len(shared) = 2
  /\ \A s \in Sessions : sess[s].pc = "done" /\ sess[s].mixed
  /\ sess[1].answers # sess[2].answers
  /\ sess[1].summary.risk_points > sess[2].summary.risk_points
  /\ sess[2].summary.risk_points > 0
  /\ sess[1].recs # sess[2].recs

====
